---- MODULE Spec2Model ----
(***************************************************************************)
(* The delayed job scheduler of the dilemma backend                        *)
(* (dilemma-backend/src/services/scheduler.service.ts): SchedulerService   *)
(* on top of a Bull queue "dilemma-scheduler", its three named processors, *)
(* the CacheService helpers the processors call and the admin controllers  *)
(* that drive the scheduler.                                               *)
(*                                                                         *)
(* Time is counted in milliseconds, as Date.now() does.  Bull's job states *)
(* keep Bull's names: "delayed" is the specification's Pending, "waiting"  *)
(* its Ready.                                                              *)
(*                                                                         *)
(* What the service relies on from Bull, as the calls it makes behave:     *)
(*  - queue.add with a jobId that exists in the queue adds nothing;        *)
(*  - a job added with delay > 0 is delayed until the call's instant plus  *)
(*    the delay, then moved to the wait list, from which one worker takes  *)
(*    it in one atomic step;                                               *)
(*  - job.remove() rejects for a job locked by the worker running it;      *)
(*  - a rejected handler is retried while attemptsMade < attempts, after   *)
(*    (2^attemptsMade - 1) * backoff.delay for the 'exponential' type;     *)
(*  - a repeatable job is a chain of delayed jobs, the next occurrence     *)
(*    being added when a worker fetches the current one;                   *)
(*  - getDelayed(start, end) is a range over the delayed set in due order  *)
(*    with both ends included;                                             *)
(*  - queue.close() takes no further job and resolves once the handlers    *)
(*    that are running have ended;                                         *)
(*  - removeOnComplete: n / removeOnFail: n keep the n most recently       *)
(*    finished jobs of the completed / failed set: the step that records a *)
(*    finished job removes the older ones beyond n;                        *)
(*  - queue.clean(grace, status) removes the jobs of the completed or       *)
(*    failed set whose finishedOn lies more than grace ms back.            *)
(* From ioredis: a command issued after redis.quit() is rejected.          *)
(*                                                                         *)
(* Each await-ing method of the service is one atomic action; the handler  *)
(* of a job runs between the ClaimJob and the FinishJob step of its worker.*)
(* Where the interleaving of awaits matters, a handler or an HTTP request  *)
(* is also taken apart: proc holds how far the handler of each worker has  *)
(* come, reqs the requests in flight, and FinishJob runs what is left of   *)
(* the handler.                                                            *)
(***************************************************************************)
EXTENDS Integers, FiniteSets, Sequences, TLC

(* ---------------------------------------------------------------------- *)
(* Bounds of the model                                                     *)
(* ---------------------------------------------------------------------- *)

\* number of clock steps explored after the initial instant
MaxTicks == 3

\* number of clock steps explored when only the workers and the clock run
MaxRetryTicks == 10

\* number of handler slots looked at (setupWorkers registers three
\* processors of concurrency 1; the model explores this many of them)
NumWorkers == 2

\* largest limit handed to getUpcomingJobs
MaxLimit == 2

\* number of long clock steps (SleepMs each) explored when the retention of
\* finished jobs is looked at
MaxSleeps == 3

\* removeOnComplete / removeOnFail of the queue explored for retention: the
\* program's 100 and 500 take more finished jobs than the model holds, so the
\* same queue is explored keeping this many
KeepCompleted == 1

KeepFailed == 1

\* number of HTTP requests that may be in flight together
MaxRequests == 2

\* number of votes cast on one dilemma
MaxVotes == 2

(* ---------------------------------------------------------------------- *)
(* Program constants                                                       *)
(* ---------------------------------------------------------------------- *)

\* defaultJobOptions.attempts
Attempts == 3

\* defaultJobOptions.backoff.delay (ms)
BackoffDelay == 2000

\* defaultJobOptions.removeOnComplete / removeOnFail
RemoveOnComplete == 100

RemoveOnFail == 500

\* hour of the reveal on the publish date: setHours(publishDateTime, 20)
RevealHour == 20

MinuteMs == 60 * 1000

HourMs == 60 * MinuteMs

DayMs == 24 * HourMs

\* step of the clock of the retention runs: four days, so that the ages of
\* the finished jobs pass the 7 days of cleanup() within the explored steps
SleepMs == 4 * DayMs

\* cleanup(): the grace periods of queue.clean, 7 * 24 * 60 * 60 * 1000 ms
\* for 'completed' and 30 * 24 * 60 * 60 * 1000 ms for 'failed', in days
CleanCompletedDays == 7

CleanFailedDays == 30

\* granularity of the modelled clock (ms)
TickMs == BackoffDelay \div 2

\* the first midnight after the epoch day, and the initial instant shortly
\* before it, so that the '0 0 * * *' occurrence falls inside the window
Midnight == DayMs

StartTime == Midnight - TickMs

EndTime == StartTime + MaxTicks * TickMs

RetryEndTime == StartTime + MaxRetryTicks * TickMs

RetentionEndTime == StartTime + MaxSleeps * SleepMs

\* an instant to the day, counted from the initial instant.  The clocks that
\* move in seconds stay within the first day, where no finished job is
\* trimmed or cleaned, and the clock of SpecRetention moves in whole days, so
\* wherever a job's finishedOn decides something the kept value is the
\* instant itself
DayStamp(t) == t - ((t - StartTime) % DayMs)

\* the dilemma ids of the model
Items == {"d1"}

\* the dilemma ids of the repository and of the queue: Items, on which the
\* controllers are explored, and one more
AllItems == Items \cup {"d2"}

Workers == 1..NumWorkers

\* target instants handed to the scheduler by its callers
Targets == {StartTime, Midnight + TickMs, Midnight + 2 * TickMs}

NoJob == [name |-> "none", key |-> "", millis |-> 0]

NoDilemma == [publishDate |-> 0, revealTime |-> 0]

VARIABLES now, jobs, worker, repo, started, lastOp, cache, shutdown,
          proc, reqs, votes, statsTotal

vars == <<now, jobs, worker, repo, started, lastOp, cache, shutdown,
          proc, reqs, votes, statsTotal>>


(* ---------------------------------------------------------------------- *)
(* The Bull queue: jobs and their ids                                      *)
(* ---------------------------------------------------------------------- *)

\* jobId: `publish-${dilemmaId}` / `reveal-${dilemmaId}`
JobId(name, dilemmaId) == [name |-> name, key |-> dilemmaId, millis |-> 0]

\* id of one occurrence of the repeatable 'daily-scheduler' job
RepeatJobId(millis) == [name |-> "daily-scheduler", key |-> "", millis |-> millis]

JobStates == {"delayed", "waiting", "active", "completed", "failed"}

HasJob(store, id) == \E j \in store : j.id = id

GetJob(store, id) == CHOOSE j \in store : j.id = id

\* a job as queue.add creates it at instant t: delayed until t + delay.
\* addedFor is job.timestamp + job.opts.delay; Bull sets both fields when the
\* job is added and never changes them.  finishedOn is the instant Bull
\* recorded the job completed or failed (0 until then), kept to the day
NewJob(id, delay, t) ==
  [id |-> id,
   state |-> IF delay > 0 THEN "delayed" ELSE "waiting",
   notBefore |-> t + delay,
   addedFor |-> t + delay,
   finishedOn |-> 0,
   attemptsMade |-> 0,
   runs |-> 0,
   ioError |-> FALSE]

\* queue.add that overwrites the job of the same id
QueueAddReplace(store, id, delay, t) ==
  {j \in store : j.id # id} \cup {NewJob(id, delay, t)}

\* queue.add that does not look for an existing id
QueueAddDuplicate(store, id, delay, t) == store \cup {NewJob(id, delay, t)}

\* queue.add(name, data, {delay, jobId}): a job id that already exists in
\* the queue, in whatever state, is not added again
QueueAdd(store, id, delay, t) ==
  IF HasJob(store, id) THEN store ELSE store \cup {NewJob(id, delay, t)}

\* job.remove(): a job locked by the worker that runs it cannot be removed
\* and remove() rejects; any other job is deleted
JobRemove(store, id) ==
  IF GetJob(store, id).state = "active"
  THEN [store |-> store, threw |-> TRUE]
  ELSE [store |-> store \ {GetJob(store, id)}, threw |-> FALSE]

\* next occurrence of cron '0 0 * * *' strictly after t
NextMidnight(t) == ((t \div DayMs) + 1) * DayMs

Max(a, b) == IF a > b THEN a ELSE b

RECURSIVE Pow2(_)
Pow2(n) == IF n = 0 THEN 1 ELSE 2 * Pow2(n - 1)

\* a backoff that doubles from the base delay
BackoffDoubling(attemptsMade) == Pow2(attemptsMade - 1) * BackoffDelay

\* backoff {type: 'exponential', delay}: delay before the retry that
\* follows the attemptsMade-th failure
Backoff(attemptsMade) == (Pow2(attemptsMade) - 1) * BackoffDelay

(* ---------------------------------------------------------------------- *)
(* SchedulerService                                                        *)
(* ---------------------------------------------------------------------- *)

\* scheduleDilemma that also enqueues a target that is due now
scheduleDilemmaDueNow(store, dilemmaId, publishDate, revealTime, t) ==
  LET publishDelay == publishDate - t
      revealDelay == revealTime - t
      s1 == IF publishDelay >= 0
            THEN QueueAdd(store, JobId("publish", dilemmaId), publishDelay, t)
            ELSE store
  IN IF revealDelay >= 0
     THEN QueueAdd(s1, JobId("reveal", dilemmaId), revealDelay, t)
     ELSE s1

scheduleDilemma(store, dilemmaId, publishDate, revealTime, t) ==
  LET publishDelay == publishDate - t
      revealDelay == revealTime - t
      s1 == IF publishDelay > 0
            THEN QueueAdd(store, JobId("publish", dilemmaId), publishDelay, t)
            ELSE store
  IN IF revealDelay > 0
     THEN QueueAdd(s1, JobId("reveal", dilemmaId), revealDelay, t)
     ELSE s1

\* an unschedule that empties the delayed set of the queue
unscheduleDilemmaAll(store, dilemmaId) ==
  [store |-> {j \in store : j.state # "delayed"}, threw |-> FALSE]

unscheduleDilemma(store, dilemmaId) ==
  LET publishJobId == JobId("publish", dilemmaId)
      revealJobId == JobId("reveal", dilemmaId)
      r1 == IF HasJob(store, publishJobId)
            THEN JobRemove(store, publishJobId)
            ELSE [store |-> store, threw |-> FALSE]
  IN IF r1.threw THEN r1
     ELSE IF HasJob(store, revealJobId)
          THEN JobRemove(r1.store, revealJobId)
          ELSE r1

rescheduleDilemma(store, dilemmaId, publishDate, revealTime, t) ==
  LET u == unscheduleDilemma(store, dilemmaId)
  IN IF u.threw THEN u
     ELSE [store |-> scheduleDilemma(u.store, dilemmaId, publishDate, revealTime, t),
           threw |-> FALSE]

\* the dilemmas prisma.dilemma.findMany({publishDate: {gt: new Date()}}) returns
FutureDilemmas(rp, t) ==
  {d \in DOMAIN rp : rp[d] # NoDilemma /\ rp[d].publishDate > t}

RECURSIVE scheduleEach(_, _, _, _)
scheduleEach(store, ds, rp, t) ==
  IF ds = {} THEN store
  ELSE LET d == CHOOSE x \in ds : \A y \in ds : rp[x].publishDate <= rp[y].publishDate
       IN scheduleEach(scheduleDilemma(store, d, rp[d].publishDate, rp[d].revealTime, t),
                       ds \ {d}, rp, t)

scheduleFutureDilemmas(store, rp, t) ==
  scheduleEach(store, FutureDilemmas(rp, t), rp, t)

\* a repeat that re-arms a fetched occurrence one day after the fetch
AddNextFromNow(store, prevMillis, t) ==
  LET nextMillis == IF prevMillis = 0 THEN NextMidnight(t) ELSE t + DayMs
  IN QueueAdd(store, RepeatJobId(nextMillis), nextMillis - t, t)

\* queue.add('daily-scheduler', {}, {repeat: {cron: '0 0 * * *'}}): the next
\* occurrence is added as a delayed job under an id made of its instant
AddNextRepeatable(store, prevMillis, t) ==
  LET nextMillis == NextMidnight(Max(t, prevMillis))
  IN QueueAdd(store, RepeatJobId(nextMillis), nextMillis - t, t)

setupDailyCron(store, t) == AddNextRepeatable(store, 0, t)

\* a getStats whose total leaves out the delayed jobs
getStatsWithoutDelayed(store) ==
  LET count(state) == Cardinality({j \in store : j.state = state})
  IN [waiting |-> count("waiting"),
      active |-> count("active"),
      completed |-> count("completed"),
      failed |-> count("failed"),
      delayed |-> count("delayed"),
      total |-> count("waiting") + count("active") + count("completed") + count("failed")]

\* getStats(): the five counts Bull reports and their sum
getStats(store) ==
  LET count(state) == Cardinality({j \in store : j.state = state})
  IN [waiting |-> count("waiting"),
      active |-> count("active"),
      completed |-> count("completed"),
      failed |-> count("failed"),
      delayed |-> count("delayed"),
      total |-> count("waiting") + count("active") + count("completed")
                  + count("failed") + count("delayed")]

\* queue.getDelayed(start, end): the delayed jobs in the order of their due
\* instants, from position start to position end, both included
RECURSIVE SortByNotBefore(_)
SortByNotBefore(S) ==
  IF S = {} THEN <<>>
  ELSE LET j == CHOOSE x \in S : \A y \in S : x.notBefore <= y.notBefore
       IN <<j>> \o SortByNotBefore(S \ {j})

\* a range that leaves out position end
getDelayedExclusive(store, start, end) ==
  LET sorted == SortByNotBefore({j \in store : j.state = "delayed"})
  IN SubSeq(sorted, start + 1, IF end < Len(sorted) THEN end ELSE Len(sorted))

getDelayed(store, start, end) ==
  LET sorted == SortByNotBefore({j \in store : j.state = "delayed"})
  IN SubSeq(sorted, start + 1, IF end + 1 < Len(sorted) THEN end + 1 ELSE Len(sorted))

\* getUpcomingJobs(limit)
getUpcomingJobs(store, limit) ==
  LET delayedJobs == getDelayed(store, 0, limit)
  IN [i \in 1..Len(delayedJobs) |->
        [id |-> delayedJobs[i].id,
         type |-> delayedJobs[i].id.name,
         dilemmaId |-> delayedJobs[i].id.key,
         scheduledFor |-> delayedJobs[i].addedFor]]

NoOp == [op |-> "none", item |-> "", publishDate |-> 0, revealTime |-> 0,
         at |-> 0, threw |-> FALSE]

Op(name, d, p, r, t, threw) ==
  [op |-> name, item |-> d, publishDate |-> p, revealTime |-> r,
   at |-> t, threw |-> threw]

(* ---------------------------------------------------------------------- *)
(* CacheService and the processors registered by setupWorkers              *)
(* ---------------------------------------------------------------------- *)

\* CACHE_KEYS: an entry of the redis cache is named by its key; setBy is the
\* method that stored the value held under it
CacheEntry(key, dilemmaId, setBy) == [key |-> key, dilemmaId |-> dilemmaId, setBy |-> setBy]

DILEMMA_TODAY == "dilemma:today"

DILEMMA_TOMORROW == "dilemma:tomorrow"

STATS_GLOBAL == "stats:global"

\* the entries whose key is one of keys
KeysOf(c, keys) == {e \in c : e.key \in keys}

\* the entries whose key matches `stats:*:${dilemmaId}*`
MatchStats(c, dilemmaId) == {e \in c : e.key = STATS_GLOBAL /\ e.dilemmaId = dilemmaId}

\* the cache connection answers until gracefulShutdown has called redis.quit()
RedisUsable == shutdown = "no"

\* CacheService.del / delPattern / set: the redis call sits in a try block
\* whose catch only logs, so the returned promise never rejects
CacheDel(c, keys, redisFails) ==
  [cache |-> IF redisFails THEN c ELSE c \ KeysOf(c, keys),
   done |-> ~redisFails, threw |-> FALSE]

CacheDelPattern(c, dilemmaId, redisFails) ==
  [cache |-> IF redisFails THEN c ELSE c \ MatchStats(c, dilemmaId),
   done |-> ~redisFails, threw |-> FALSE]

CacheSet(c, e, redisFails) ==
  [cache |-> IF redisFails THEN c ELSE {x \in c : x.key # e.key \/ x.dilemmaId # e.dilemmaId} \cup {e},
   done |-> ~redisFails, threw |-> FALSE]

\* precalculateStats: counts the votes and caches the aggregate inside a
\* try block whose catch only logs
precalculateStats(c, dilemmaId, dbFails, redisFails) ==
  LET r == IF dbFails THEN [cache |-> c, done |-> FALSE, threw |-> FALSE]
           ELSE CacheSet(c, CacheEntry(STATS_GLOBAL, dilemmaId, "precalculateStats"), redisFails)
  IN [cache |-> r.cache, cached |-> r.done, threw |-> FALSE]

\* a publish handler that leaves 'dilemma:tomorrow' in the cache
PublishProcessorTodayOnly(c, redisFails) ==
  LET r == CacheDel(c, {DILEMMA_TODAY}, redisFails)
  IN [threw |-> r.threw, ioError |-> redisFails, cache |-> r.cache]

\* queue.process('publish', ...): rethrows what CacheService.del throws
PublishProcessor(c, redisFails) ==
  LET r == CacheDel(c, {DILEMMA_TODAY, DILEMMA_TOMORROW}, redisFails)
  IN [threw |-> r.threw, ioError |-> redisFails, cache |-> r.cache]

\* queue.process('reveal', ...)
RevealProcessor(c, dilemmaId, dbFails, redisFails) ==
  LET r == CacheDelPattern(c, dilemmaId, redisFails)
      p == IF r.threw THEN [cache |-> r.cache, cached |-> FALSE, threw |-> TRUE]
           ELSE precalculateStats(r.cache, dilemmaId, dbFails, redisFails)
  IN [threw |-> r.threw \/ p.threw, ioError |-> redisFails \/ dbFails, cache |-> p.cache]

\* queue.process('daily-scheduler', ...): prisma.dilemma.findMany is awaited
\* without a try block
DailyProcessor(c, dbFails) == [threw |-> dbFails, ioError |-> dbFails, cache |-> c]

Processor(c, id, dbFails, redisFails) ==
  IF id.name = "publish" THEN PublishProcessor(c, redisFails)
  ELSE IF id.name = "reveal" THEN RevealProcessor(c, id.key, dbFails, redisFails)
  ELSE DailyProcessor(c, dbFails)

\* a record of a resolved handler that also counts a failed attempt
moveToCompletedAndFailed(j) ==
  [j EXCEPT !.state = "completed", !.attemptsMade = @ + 1]

\* Bull records a resolved handler
moveToCompleted(j) == [j EXCEPT !.state = "completed"]

\* a retry decision that allows one attempt too many
moveToFailedOneMore(j, t) ==
  LET attemptsMade == j.attemptsMade + 1
  IN IF attemptsMade <= Attempts
     THEN [j EXCEPT !.attemptsMade = attemptsMade,
                    !.state = IF Backoff(attemptsMade) > 0 THEN "delayed" ELSE "waiting",
                    !.notBefore = t + Backoff(attemptsMade)]
     ELSE [j EXCEPT !.attemptsMade = attemptsMade, !.state = "failed"]

\* Bull records a rejected handler: retry after the backoff while attempts
\* remain, else failed
moveToFailed(j, t) ==
  LET attemptsMade == j.attemptsMade + 1
  IN IF attemptsMade < Attempts
     THEN [j EXCEPT !.attemptsMade = attemptsMade,
                    !.state = IF Backoff(attemptsMade) > 0 THEN "delayed" ELSE "waiting",
                    !.notBefore = t + Backoff(attemptsMade)]
     ELSE [j EXCEPT !.attemptsMade = attemptsMade, !.state = "failed"]

\* a reveal instant at the start of the publish date
RevealTimeOfMidnight(publishDate) == (publishDate \div DayMs) * DayMs

\* setMinutes(setHours(publishDateTime, 20), 0): the hour becomes 20 and the
\* minutes 0; the date, the seconds and the milliseconds are kept
RevealTimeOf(publishDate) ==
  (publishDate \div DayMs) * DayMs + RevealHour * HourMs + (publishDate % MinuteMs)

(* ---------------------------------------------------------------------- *)
(* Initial state and actions                                               *)
(* ---------------------------------------------------------------------- *)

\* a handler that has not passed its first await
NoProc == [pc |-> "whole", todo |-> {}, rows |-> [d \in AllItems |-> NoDilemma],
           total |-> 0, ioError |-> FALSE]

\* a request slot that holds no request
NoReq == [op |-> "none", pc |-> "idle", item |-> "", publishDate |-> 0,
          revealTime |-> 0, total |-> 0]

Reqs == 1..MaxRequests

\* proc holds the handlers that have passed an await, reqs the requests that
\* were entered
ProcOf(w) == IF w \in DOMAIN proc THEN proc[w] ELSE NoProc

SetProc(w, p) == [x \in DOMAIN proc \cup {w} |-> IF x = w THEN p ELSE proc[x]]

ClearProc(w) == [x \in DOMAIN proc \ {w} |-> proc[x]]

ReqOf(r) == IF r \in DOMAIN reqs THEN reqs[r] ELSE NoReq

SetReq(r, q) == [x \in DOMAIN reqs \cup {r} |-> IF x = r THEN q ELSE reqs[x]]

Init ==
  /\ now = StartTime
  /\ jobs = {}
  /\ worker = [w \in Workers |-> NoJob]
  /\ repo = [d \in AllItems |-> NoDilemma]
  /\ started = FALSE
  /\ lastOp = NoOp
  /\ cache = {}
  /\ shutdown = "no"
  /\ proc = [w \in {} |-> NoProc]
  /\ reqs = [r \in {} |-> NoReq]
  /\ votes = [d \in AllItems |-> 0]
  /\ statsTotal = [d \in AllItems |-> 0]

\* the clock advances
TickUntil(end) ==
  /\ now < end
  /\ now' = now + TickMs
  /\ lastOp' = NoOp
  /\ UNCHANGED <<jobs, worker, repo, started, cache, shutdown, proc, reqs, votes, statsTotal>>

Tick == TickUntil(EndTime)

TickRetry == TickUntil(RetryEndTime)

\* startServer of a new process calls SchedulerService.init(): setupWorkers,
\* scheduleFutureDilemmas, setupDailyCron
InitService ==
  /\ ~started
  /\ started' = TRUE
  /\ jobs' = setupDailyCron(scheduleFutureDilemmas(jobs, repo, now), now)
  /\ lastOp' = Op("init", "", 0, 0, now, FALSE)
  /\ shutdown' = "no"
  /\ UNCHANGED <<now, worker, repo, cache, proc, reqs, votes, statsTotal>>

ScheduleDilemma(d, p, r) ==
  /\ jobs' = scheduleDilemma(jobs, d, p, r, now)
  /\ lastOp' = Op("schedule", d, p, r, now, FALSE)
  /\ UNCHANGED <<now, worker, repo, started, cache, shutdown, proc, reqs, votes, statsTotal>>

UnscheduleDilemma(d) ==
  LET u == unscheduleDilemma(jobs, d)
  IN /\ jobs' = u.store
     /\ lastOp' = Op("unschedule", d, 0, 0, now, u.threw)
     /\ UNCHANGED <<now, worker, repo, started, cache, shutdown, proc, reqs, votes, statsTotal>>

RescheduleDilemma(d, p, r) ==
  LET u == rescheduleDilemma(jobs, d, p, r, now)
  IN /\ jobs' = u.store
     /\ lastOp' = Op("reschedule", d, p, r, now, u.threw)
     /\ UNCHANGED <<now, worker, repo, started, cache, shutdown, proc, reqs, votes, statsTotal>>

\* admin controller createDilemma (the HTTP server takes no request once
\* gracefulShutdown has closed it)
CreateDilemma(d, p) ==
  /\ shutdown = "no"
  /\ repo[d] = NoDilemma
  /\ repo' = [repo EXCEPT ![d] = [publishDate |-> p, revealTime |-> RevealTimeOf(p)]]
  /\ jobs' = scheduleDilemma(jobs, d, p, RevealTimeOf(p), now)
  /\ lastOp' = Op("schedule", d, p, RevealTimeOf(p), now, FALSE)
  /\ UNCHANGED <<now, worker, started, cache, shutdown, proc, reqs, votes, statsTotal>>

\* admin controller updateDilemma with a publishDate in the body
UpdateDilemma(d, p) ==
  /\ shutdown = "no"
  /\ repo[d] # NoDilemma
  /\ repo' = [repo EXCEPT ![d] = [publishDate |-> p, revealTime |-> RevealTimeOf(p)]]
  /\ LET u == rescheduleDilemma(jobs, d, p, RevealTimeOf(p), now)
     IN /\ jobs' = u.store
        /\ lastOp' = Op("reschedule", d, p, RevealTimeOf(p), now, u.threw)
  /\ UNCHANGED <<now, worker, started, cache, shutdown, proc, reqs, votes, statsTotal>>

\* admin controller deleteDilemma: the row is deleted only when
\* unscheduleDilemma did not throw
DeleteDilemma(d) ==
  /\ shutdown = "no"
  /\ repo[d] # NoDilemma
  /\ LET u == unscheduleDilemma(jobs, d)
     IN /\ jobs' = u.store
        /\ repo' = IF u.threw THEN repo ELSE [repo EXCEPT ![d] = NoDilemma]
        /\ lastOp' = Op("unschedule", d, 0, 0, now, u.threw)
  /\ UNCHANGED <<now, worker, started, cache, shutdown, proc, reqs, votes, statsTotal>>

\* prisma/seed.ts: the seed script inserts dilemma rows (publishDate and
\* getRevealTime(publishDate)) without calling the scheduler
SeedDilemma(d, p) ==
  /\ repo[d] = NoDilemma
  /\ repo' = [repo EXCEPT ![d] = [publishDate |-> p, revealTime |-> RevealTimeOf(p)]]
  /\ lastOp' = NoOp
  /\ UNCHANGED <<now, jobs, worker, started, cache, shutdown, proc, reqs, votes, statsTotal>>

\* a delay timer that moves a delayed job to the wait list at any instant
PromoteDelayedEarly(id) ==
  /\ started
  /\ shutdown = "no"
  /\ HasJob(jobs, id)
  /\ LET j == GetJob(jobs, id)
     IN /\ j.state = "delayed"
        /\ jobs' = (jobs \ {j}) \cup {[j EXCEPT !.state = "waiting"]}
  /\ lastOp' = NoOp
  /\ UNCHANGED <<now, worker, repo, started, cache, shutdown, proc, reqs, votes, statsTotal>>

\* the queue lives in redis: while the process is down the redis server
\* loses the delayed set (a restart without persistence, a flush)
LoseDelayedJobs ==
  /\ ~started
  /\ \E j \in jobs : j.state = "delayed"
  /\ jobs' = {j \in jobs : j.state # "delayed"}
  /\ lastOp' = Op("lost", "", 0, 0, now, FALSE)
  /\ UNCHANGED <<now, worker, repo, started, cache, shutdown, proc, reqs, votes, statsTotal>>

\* Bull's delay timer moves a delayed job whose instant has come to the wait list
PromoteDelayed(id) ==
  /\ started
  /\ shutdown = "no"
  /\ HasJob(jobs, id)
  /\ LET j == GetJob(jobs, id)
     IN /\ j.state = "delayed"
        /\ j.notBefore <= now
        /\ jobs' = (jobs \ {j}) \cup {[j EXCEPT !.state = "waiting"]}
  /\ lastOp' = NoOp
  /\ UNCHANGED <<now, worker, repo, started, cache, shutdown, proc, reqs, votes, statsTotal>>

\* a claim that does not look at the lock of a running job
ClaimableUnlocked(store) == {j \in store : j.state \in {"waiting", "active"}}

\* a queue that hands out no job once one of its jobs has failed
ClaimableUntilFailure(store) ==
  IF \E j \in store : j.state = "failed" THEN {} ELSE {j \in store : j.state = "waiting"}

\* the jobs a free worker may take
Claimable(store) == {j \in store : j.state = "waiting"}

\* a worker takes a waiting job (Bull's moveToActive); fetching an occurrence
\* of the repeatable job adds its next occurrence
ClaimJob(w, id) ==
  /\ started
  /\ shutdown = "no"
  /\ worker[w] = NoJob
  /\ HasJob(jobs, id)
  /\ LET j == GetJob(jobs, id)
         taken == (jobs \ {j}) \cup {[j EXCEPT !.state = "active", !.runs = @ + 1]}
     IN /\ j \in Claimable(jobs)
        /\ jobs' = IF id.name = "daily-scheduler"
                   THEN AddNextRepeatable(taken, id.millis, now)
                   ELSE taken
  /\ worker' = [worker EXCEPT ![w] = id]
  /\ lastOp' = NoOp
  /\ UNCHANGED <<now, repo, started, cache, shutdown, proc, reqs, votes, statsTotal>>

\* what is left of the handler of job id once it has come as far as p: all of
\* it, the scheduleDilemma calls of the sweep, precalculateStats, or the
\* CacheService.set of precalculateStats
Remainder(c, id, p, dbFails, redisFails) ==
  IF p.pc = "whole" THEN Processor(c, id, dbFails, redisFails)
  ELSE IF p.pc = "scheduling" THEN [threw |-> FALSE, ioError |-> FALSE, cache |-> c]
  ELSE IF p.pc = "invalidated"
  THEN LET r == precalculateStats(c, id.key, dbFails, redisFails)
       IN [threw |-> r.threw, ioError |-> p.ioError \/ dbFails \/ redisFails, cache |-> r.cache]
  ELSE LET r == CacheSet(c, CacheEntry(STATS_GLOBAL, id.key, "precalculateStats"), redisFails)
       IN [threw |-> r.threw, ioError |-> p.ioError \/ redisFails, cache |-> r.cache]

\* what Bull records for job j once its handler has ended with res: the
\* job completed, re-armed for a retry or failed, and when it has finished
\* the day of its end
Recorded(j, res, t) ==
  LET done == IF res.threw THEN moveToFailed(j, t) ELSE moveToCompleted(j)
  IN [done EXCEPT !.ioError = res.ioError,
                  !.finishedOn = IF done.state \in {"completed", "failed"} THEN DayStamp(t) ELSE 0]

\* the handler of the job held by w runs to its end and Bull records it; a
\* job recorded completed (failed) joins the completed (failed) set, of which
\* the keepCompleted (keepFailed) most recently finished jobs are kept.  Jobs
\* whose finishedOn is the same instant have no order the model knows: any of
\* them may be the older one.  (A queue of at most keep jobs has none beyond
\* keep.)
FinishJobKeeping(w, dbFails, redisFails, keepCompleted, keepFailed) ==
  /\ worker[w] # NoJob
  /\ RedisUsable \/ redisFails
  /\ ProcOf(w).pc \in {"scheduling", "counted"} => ~dbFails
  /\ \E j \in {x \in jobs : x.id = worker[w]}, p \in {ProcOf(w)} :
       \E res \in {Remainder(cache, j.id, p, dbFails, redisFails)} :
         \E rec \in {Recorded(j, res, now)} :
           LET store == IF j.id.name = "daily-scheduler" /\ ~res.threw
                        THEN IF p.pc = "whole"
                             THEN scheduleFutureDilemmas(jobs, repo, now)
                             ELSE scheduleEach(jobs, p.todo, p.rows, now)
                        ELSE jobs
               totalVotes == IF p.pc = "counted" THEN p.total ELSE votes[j.id.key]
               finished == rec.state \in {"completed", "failed"}
               others == {x \in store \ {j} : x.state = rec.state}
               keep == IF rec.state = "completed" THEN keepCompleted ELSE keepFailed
           IN /\ IF ~finished \/ Cardinality(store) <= keep
                 THEN jobs' = (store \ {j}) \cup {rec}
                 ELSE \E removed \in SUBSET others :
                        /\ Cardinality(removed) = Max(0, Cardinality(others) + 1 - keep)
                        /\ \A r \in removed : \A k \in others \ removed :
                             r.finishedOn <= k.finishedOn
                        /\ jobs' = ((store \ {j}) \ removed) \cup {rec}
              /\ cache' = res.cache
              /\ statsTotal' = IF j.id.name = "reveal" /\ ~dbFails /\ ~redisFails
                               THEN [statsTotal EXCEPT ![j.id.key] = totalVotes]
                               ELSE statsTotal
  /\ worker' = [worker EXCEPT ![w] = NoJob]
  /\ proc' = ClearProc(w)
  /\ lastOp' = NoOp
  /\ UNCHANGED <<now, repo, started, shutdown, reqs, votes>>

\* the queue as SchedulerService constructs it
FinishJob(w, dbFails, redisFails) ==
  FinishJobKeeping(w, dbFails, redisFails, RemoveOnComplete, RemoveOnFail)

\* a sweep that removes every finished job whatever its age
cleanupAll(store, t) ==
  {j \in store : j.state \notin {"completed", "failed"}}

\* queue.clean removes a finished job when finishedOn < Date.now() - grace
FinishedBeforeGrace(j, t, graceDays) ==
  LET age == t - j.finishedOn
  IN \/ age \div DayMs > graceDays
     \/ age \div DayMs = graceDays /\ age % DayMs > 0

\* cleanup(): queue.clean(grace, 'completed') then queue.clean(grace, 'failed')
cleanup(store, t) ==
  {j \in store :
     /\ ~(j.state = "completed" /\ FinishedBeforeGrace(j, t, CleanCompletedDays))
     /\ ~(j.state = "failed" /\ FinishedBeforeGrace(j, t, CleanFailedDays))}

Cleanup ==
  /\ jobs' = cleanup(jobs, now)
  /\ lastOp' = Op("cleanup", "", 0, 0, now, FALSE)
  /\ UNCHANGED <<now, worker, repo, started, cache, shutdown, proc, reqs, votes, statsTotal>>

\* the clock of the retention runs: days pass (a handler run takes far less,
\* so no handler is running across such a step)
Sleep ==
  /\ now < RetentionEndTime
  /\ \A w \in Workers : worker[w] = NoJob
  /\ now' = now + SleepMs
  /\ lastOp' = NoOp
  /\ UNCHANGED <<jobs, worker, repo, started, cache, shutdown, proc, reqs, votes, statsTotal>>

\* gracefulShutdown on SIGTERM / SIGINT, up to the call of scheduler.shutdown():
\* the HTTP server is closed, prisma and the cache connection are
\* disconnected, then queue.close() is called.  (The forced exit comes 10 s
\* later, after the instants explored here.)
GracefulShutdown ==
  /\ started
  /\ shutdown = "no"
  /\ shutdown' = "closing"
  /\ lastOp' = NoOp
  /\ UNCHANGED <<now, jobs, worker, repo, started, cache, proc, reqs, votes, statsTotal>>

\* queue.close() resolves when no handler runs any more; scheduler.shutdown()
\* returns and the process exits
ShutdownReturn ==
  /\ shutdown = "closing"
  /\ \A w \in Workers : worker[w] = NoJob
  /\ shutdown' = "closed"
  /\ started' = FALSE
  /\ lastOp' = NoOp
  /\ UNCHANGED <<now, jobs, worker, repo, cache, proc, reqs, votes, statsTotal>>

\* DilemmaService.getTodayDilemma / getTomorrowDilemma: on a cache miss the
\* dilemma is read and stored under the key (CACHE_TTL.DILEMMA is an hour,
\* longer than the instants explored)
GetDilemma(key) ==
  /\ key \in {DILEMMA_TODAY, DILEMMA_TOMORROW}
  /\ KeysOf(cache, {key}) = {}
  /\ cache' = CacheSet(cache, CacheEntry(key, "", "DilemmaService"), ~RedisUsable).cache
  /\ lastOp' = NoOp
  /\ UNCHANGED <<now, jobs, worker, repo, started, shutdown, proc, reqs, votes, statsTotal>>

\* StatsService.getGlobalStats: on a cache miss the votes are counted and the
\* aggregate stored under stats:global:<id>
GetGlobalStats(d) ==
  /\ MatchStats(cache, d) = {}
  /\ cache' = CacheSet(cache, CacheEntry(STATS_GLOBAL, d, "getGlobalStats"), ~RedisUsable).cache
  /\ statsTotal' = [statsTotal EXCEPT ![d] = votes[d]]
  /\ lastOp' = NoOp
  /\ UNCHANGED <<now, jobs, worker, repo, started, shutdown, proc, reqs, votes>>

JobIds ==
  {JobId(n, d) : n \in {"publish", "reveal"}, d \in Items}
    \cup {RepeatJobId(Midnight + k * DayMs) : k \in 0..1}

Next ==
  \/ Tick
  \/ InitService
  \/ \E d \in Items, p \in Targets, r \in Targets : ScheduleDilemma(d, p, r)
  \/ \E d \in Items : UnscheduleDilemma(d)
  \/ \E d \in Items, p \in Targets, r \in Targets : RescheduleDilemma(d, p, r)
  \/ \E d \in Items, p \in Targets : CreateDilemma(d, p)
  \/ \E d \in Items, p \in Targets : UpdateDilemma(d, p)
  \/ \E d \in Items : DeleteDilemma(d)
  \/ \E id \in JobIds : PromoteDelayed(id)
  \/ \E w \in Workers, id \in JobIds : ClaimJob(w, id)
  \/ \E w \in Workers, dbFails \in BOOLEAN, redisFails \in BOOLEAN :
       FinishJob(w, dbFails, redisFails)

Spec == Init /\ [][Next]_vars

\* the scheduler left to itself: dilemmas are created, and after init() only
\* the clock, Bull's delay timer and the workers act
NextRetry ==
  \/ TickRetry
  \/ InitService
  \/ \E d \in Items, p \in Targets : CreateDilemma(d, p)
  \/ \E id \in JobIds : PromoteDelayed(id)
  \/ \E w \in Workers, id \in JobIds : ClaimJob(w, id)
  \/ \E w \in Workers, dbFails \in BOOLEAN, redisFails \in BOOLEAN :
       FinishJob(w, dbFails, redisFails)

SpecRetry == Init /\ [][NextRetry]_vars

\* Bull's delay timer and the three processors poll the queue for as long as
\* the process lives and startServer calls init(): each of these steps is
\* taken when it stays possible
Fairness ==
  /\ WF_vars(InitService)
  /\ \A id \in JobIds : WF_vars(PromoteDelayed(id))
  /\ \A id \in JobIds : WF_vars(\E w \in Workers : ClaimJob(w, id))
  /\ \A w \in Workers :
       WF_vars(\E dbFails \in BOOLEAN, redisFails \in BOOLEAN : FinishJob(w, dbFails, redisFails))

SpecRetryFair == SpecRetry /\ WF_vars(TickRetry) /\ Fairness

\* the process is stopped by a signal and started again, while the seed
\* script, the admin controllers, the clock, the delay timer and the workers
\* act
NextRestart ==
  \/ Tick
  \/ InitService
  \/ GracefulShutdown
  \/ ShutdownReturn
  \/ \E d \in Items, p \in Targets : SeedDilemma(d, p)
  \/ \E d \in Items, p \in Targets : CreateDilemma(d, p)
  \/ \E d \in Items, p \in Targets : UpdateDilemma(d, p)
  \/ \E d \in Items : DeleteDilemma(d)
  \/ \E id \in JobIds : PromoteDelayed(id)
  \/ \E w \in Workers, id \in JobIds : ClaimJob(w, id)
  \/ \E w \in Workers, dbFails \in BOOLEAN, redisFails \in BOOLEAN :
       FinishJob(w, dbFails, redisFails)

SpecRestart == Init /\ [][NextRestart]_vars

\* the same, with a redis server that may lose the delayed jobs while the
\* process is down
NextCrash ==
  \/ NextRestart
  \/ LoseDelayedJobs

SpecCrash == Init /\ [][NextCrash]_vars

\* one item is scheduled while requests fill the cache and the workers run
\* the jobs
NextCache ==
  \/ Tick
  \/ InitService
  \/ \E d \in Items, p \in Targets, r \in Targets : p < r /\ ScheduleDilemma(d, p, r)
  \/ \E key \in {DILEMMA_TODAY, DILEMMA_TOMORROW} : GetDilemma(key)
  \/ \E d \in Items : GetGlobalStats(d)
  \/ \E id \in JobIds : PromoteDelayed(id)
  \/ \E w \in Workers, id \in JobIds : ClaimJob(w, id)
  \/ \E w \in Workers, dbFails \in BOOLEAN, redisFails \in BOOLEAN :
       FinishJob(w, dbFails, redisFails)

SpecCache == Init /\ [][NextCache]_vars

SpecCacheFair == SpecCache /\ WF_vars(Tick) /\ Fairness

\* the job ids of the retention runs: the occurrences of the daily job that
\* get added lie one step of the clock apart
RetentionJobIds ==
  {JobId(n, d) : n \in {"publish", "reveal"}, d \in Items}
    \cup {RepeatJobId(Midnight + k * SleepMs) : k \in 0..MaxSleeps}

\* days pass while a dilemma is created and deleted, one worker runs the
\* jobs of a queue that keeps KeepCompleted / KeepFailed finished jobs (the
\* cache answering), and cleanup() is called
NextRetention ==
  \/ Sleep
  \/ InitService
  \/ Cleanup
  \/ \E d \in Items : CreateDilemma(d, Midnight + TickMs)
  \/ \E d \in Items : DeleteDilemma(d)
  \/ \E id \in RetentionJobIds : PromoteDelayed(id)
  \/ \E id \in RetentionJobIds : ClaimJob(1, id)
  \/ \E dbFails \in BOOLEAN :
       FinishJobKeeping(1, dbFails, FALSE, KeepCompleted, KeepFailed)

SpecRetention == Init /\ [][NextRetention]_vars

(* ---------------------------------------------------------------------- *)
(* Handlers and requests taken apart at their awaits                       *)
(* ---------------------------------------------------------------------- *)

\* the daily-scheduler handler up to the return of prisma.dilemma.findMany:
\* the rows read are what the loop will work on
SweepRead(w) ==
  /\ worker[w] # NoJob
  /\ worker[w].name = "daily-scheduler"
  /\ ProcOf(w).pc = "whole"
  /\ proc' = SetProc(w, [NoProc EXCEPT !.pc = "scheduling",
                                        !.todo = FutureDilemmas(repo, now),
                                        !.rows = repo])
  /\ lastOp' = NoOp
  /\ UNCHANGED <<now, jobs, worker, repo, started, cache, shutdown, reqs, votes, statsTotal>>

\* one pass of the loop of scheduleFutureDilemmas: scheduleDilemma for the
\* next row read
SweepSchedule(w) ==
  /\ ProcOf(w).pc = "scheduling"
  /\ ProcOf(w).todo # {}
  /\ LET rows == ProcOf(w).rows
         d == CHOOSE x \in ProcOf(w).todo :
                \A y \in ProcOf(w).todo : rows[x].publishDate <= rows[y].publishDate
     IN /\ jobs' = scheduleDilemma(jobs, d, rows[d].publishDate, rows[d].revealTime, now)
        /\ proc' = SetProc(w, [ProcOf(w) EXCEPT !.todo = @ \ {d}])
  /\ lastOp' = NoOp
  /\ UNCHANGED <<now, worker, repo, started, cache, shutdown, reqs, votes, statsTotal>>

\* admin controller deleteDilemma is entered
BeginDelete(r, d) ==
  /\ shutdown = "no"
  /\ ReqOf(r) = NoReq
  /\ repo[d] # NoDilemma
  /\ reqs' = SetReq(r, [NoReq EXCEPT !.op = "delete", !.pc = "unschedule", !.item = d])
  /\ lastOp' = NoOp
  /\ UNCHANGED <<now, jobs, worker, repo, started, cache, shutdown, proc, votes, statsTotal>>

\* await scheduler.unscheduleDilemma(id) of deleteDilemma, or the
\* unscheduleDilemma of the rescheduleDilemma of updateDilemma; when it
\* throws the request ends with an error
StepUnschedule(r) ==
  /\ ReqOf(r).pc = "unschedule"
  /\ LET u == unscheduleDilemma(jobs, ReqOf(r).item)
     IN /\ jobs' = u.store
        /\ reqs' = SetReq(r, [ReqOf(r) EXCEPT !.pc = IF u.threw THEN "failed"
                                                     ELSE IF ReqOf(r).op = "delete" THEN "delete"
                                                     ELSE "schedule"])
  /\ lastOp' = NoOp
  /\ UNCHANGED <<now, worker, repo, started, cache, shutdown, proc, votes, statsTotal>>

\* await prisma.dilemma.delete of deleteDilemma (it throws when the row is gone)
StepDelete(r) ==
  /\ ReqOf(r).pc = "delete"
  /\ repo' = [repo EXCEPT ![ReqOf(r).item] = NoDilemma]
  /\ reqs' = SetReq(r, [ReqOf(r) EXCEPT !.pc = IF repo[ReqOf(r).item] = NoDilemma THEN "failed"
                                               ELSE "done"])
  /\ lastOp' = NoOp
  /\ UNCHANGED <<now, jobs, worker, started, cache, shutdown, proc, votes, statsTotal>>

\* deletions of a dilemma beside the workers, the daily sweep read and run
\* step by step
NextSweepRace ==
  \/ Tick
  \/ InitService
  \/ \E d \in Items, p \in Targets : CreateDilemma(d, p)
  \/ \E r \in Reqs, d \in Items : BeginDelete(r, d)
  \/ \E r \in Reqs : StepUnschedule(r)
  \/ \E r \in Reqs : StepDelete(r)
  \/ \E id \in JobIds : PromoteDelayed(id)
  \/ \E w \in Workers, id \in JobIds : ClaimJob(w, id)
  \/ \E w \in Workers : SweepRead(w)
  \/ \E w \in Workers : SweepSchedule(w)
  \/ \E w \in Workers, dbFails \in BOOLEAN : FinishJob(w, dbFails, FALSE)

SpecSweepRace == Init /\ [][NextSweepRace]_vars

\* admin controller updateDilemma with a publishDate in the body, up to the
\* return of prisma.dilemma.update: the row is written, and the request
\* keeps the dates of the row it got back
BeginUpdate(r, d, p) ==
  /\ shutdown = "no"
  /\ ReqOf(r) = NoReq
  /\ repo[d] # NoDilemma
  /\ repo' = [repo EXCEPT ![d] = [publishDate |-> p, revealTime |-> RevealTimeOf(p)]]
  /\ reqs' = SetReq(r, [NoReq EXCEPT !.op = "update", !.pc = "unschedule", !.item = d,
                                      !.publishDate = p, !.revealTime = RevealTimeOf(p)])
  /\ lastOp' = NoOp
  /\ UNCHANGED <<now, jobs, worker, started, cache, shutdown, proc, votes, statsTotal>>

\* await this.scheduleDilemma(...) of rescheduleDilemma, with the dates the
\* request holds
StepSchedule(r) ==
  /\ ReqOf(r).pc = "schedule"
  /\ jobs' = scheduleDilemma(jobs, ReqOf(r).item, ReqOf(r).publishDate, ReqOf(r).revealTime, now)
  /\ reqs' = SetReq(r, [ReqOf(r) EXCEPT !.pc = "done"])
  /\ lastOp' = NoOp
  /\ UNCHANGED <<now, worker, repo, started, cache, shutdown, proc, votes, statsTotal>>

\* updates of a dilemma in flight together, beside the clock and the workers
NextUpdateRace ==
  \/ Tick
  \/ InitService
  \/ \E d \in Items, p \in Targets : CreateDilemma(d, p)
  \/ \E r \in Reqs, d \in Items, p \in Targets : BeginUpdate(r, d, p)
  \/ \E r \in Reqs : StepUnschedule(r)
  \/ \E r \in Reqs : StepSchedule(r)
  \/ \E id \in JobIds : PromoteDelayed(id)
  \/ \E w \in Workers, id \in JobIds : ClaimJob(w, id)
  \/ \E w \in Workers : FinishJob(w, FALSE, FALSE)

SpecUpdateRace == Init /\ [][NextUpdateRace]_vars

\* VoteService.vote up to the return of prisma.vote.create: the dilemma is
\* found, the voter has no vote on it yet, the vote is stored
BeginVote(r, d) ==
  /\ shutdown = "no"
  /\ ReqOf(r) = NoReq
  /\ repo[d] # NoDilemma
  /\ votes[d] < MaxVotes
  /\ votes' = [votes EXCEPT ![d] = @ + 1]
  /\ reqs' = SetReq(r, [NoReq EXCEPT !.op = "vote", !.pc = "invalidate", !.item = d])
  /\ lastOp' = NoOp
  /\ UNCHANGED <<now, jobs, worker, repo, started, cache, shutdown, proc, statsTotal>>

\* await CacheService.delPattern(`stats:*:${dilemmaId}*`) of vote, after
\* which the call returns the vote
StepInvalidate(r, redisFails) ==
  /\ ReqOf(r).pc = "invalidate"
  /\ RedisUsable \/ redisFails
  /\ cache' = CacheDelPattern(cache, ReqOf(r).item, redisFails).cache
  /\ reqs' = SetReq(r, [ReqOf(r) EXCEPT !.pc = "done"])
  /\ lastOp' = NoOp
  /\ UNCHANGED <<now, jobs, worker, repo, started, shutdown, proc, votes, statsTotal>>

\* StatsService.getGlobalStats up to the return of the two counts, on a
\* cache miss
BeginStats(r, d) ==
  /\ shutdown = "no"
  /\ ReqOf(r) = NoReq
  /\ MatchStats(cache, d) = {}
  /\ reqs' = SetReq(r, [NoReq EXCEPT !.op = "stats", !.pc = "write", !.item = d,
                                      !.total = votes[d]])
  /\ lastOp' = NoOp
  /\ UNCHANGED <<now, jobs, worker, repo, started, cache, shutdown, proc, votes, statsTotal>>

\* await CacheService.set(cacheKey, stats, CACHE_TTL.STATS) of getGlobalStats
StepWrite(r, redisFails) ==
  /\ ReqOf(r).pc = "write"
  /\ RedisUsable \/ redisFails
  /\ cache' = CacheSet(cache, CacheEntry(STATS_GLOBAL, ReqOf(r).item, "getGlobalStats"),
                       redisFails).cache
  /\ statsTotal' = IF redisFails THEN statsTotal
                   ELSE [statsTotal EXCEPT ![ReqOf(r).item] = ReqOf(r).total]
  /\ reqs' = SetReq(r, [ReqOf(r) EXCEPT !.pc = "done"])
  /\ lastOp' = NoOp
  /\ UNCHANGED <<now, jobs, worker, repo, started, shutdown, proc, votes>>

\* the reveal handler up to the return of CacheService.delPattern
RevealInvalidate(w, redisFails) ==
  /\ worker[w] # NoJob
  /\ worker[w].name = "reveal"
  /\ ProcOf(w).pc = "whole"
  /\ RedisUsable \/ redisFails
  /\ cache' = CacheDelPattern(cache, worker[w].key, redisFails).cache
  /\ proc' = SetProc(w, [NoProc EXCEPT !.pc = "invalidated", !.ioError = redisFails])
  /\ lastOp' = NoOp
  /\ UNCHANGED <<now, jobs, worker, repo, started, shutdown, reqs, votes, statsTotal>>

\* precalculateStats up to the return of its counts
RevealCount(w) ==
  /\ ProcOf(w).pc = "invalidated"
  /\ proc' = SetProc(w, [ProcOf(w) EXCEPT !.pc = "counted", !.total = votes[worker[w].key]])
  /\ lastOp' = NoOp
  /\ UNCHANGED <<now, jobs, worker, repo, started, cache, shutdown, reqs, votes, statsTotal>>

\* votes are cast and statistics asked for while one worker runs the jobs of
\* a seeded and scheduled dilemma, the reveal handler step by step
NextStats ==
  \/ Tick
  \/ InitService
  \/ \E d \in Items : SeedDilemma(d, Midnight + TickMs)
  \/ \E d \in Items : ScheduleDilemma(d, Midnight + TickMs, Midnight + 2 * TickMs)
  \/ \E r \in Reqs, d \in Items : BeginVote(r, d)
  \/ \E r \in Reqs, redisFails \in BOOLEAN : StepInvalidate(r, redisFails)
  \/ \E r \in Reqs, d \in Items : BeginStats(r, d)
  \/ \E r \in Reqs : StepWrite(r, FALSE)
  \/ \E id \in JobIds : PromoteDelayed(id)
  \/ \E id \in JobIds : ClaimJob(1, id)
  \/ RevealInvalidate(1, FALSE)
  \/ RevealCount(1)
  \/ \E dbFails \in BOOLEAN : FinishJob(1, dbFails, FALSE)

SpecStats == Init /\ [][NextStats]_vars

(* ---------------------------------------------------------------------- *)
(* The statistics controllers                                              *)
(* ---------------------------------------------------------------------- *)

\* DilemmaService.isRevealed: new Date() >= dilemma.revealTime
isRevealed(dilemma, t) == t >= dilemma.revealTime

\* stats controller getGlobalStats: the HTTP status of the answer
getGlobalStats(rp, d, t) ==
  IF rp[d] = NoDilemma THEN 404
  ELSE IF ~isRevealed(rp[d], t) THEN 403
  ELSE 200

\* stats controller getStatsByGender -> StatsService.getStatsByGender: 403
\* when the user has no gender, else the counts
getStatsByGender(rp, d, t, profile) == IF ~profile THEN 403 ELSE 200

\* stats controller getStatsByAge -> StatsService.getStatsByAge: 403 when
\* the user has no birth date, else the counts
getStatsByAge(rp, d, t, profile) == IF ~profile THEN 403 ELSE 200

\* stats controller getFriendsStats -> StatsService.getFriendsStats
getFriendsStats(rp, d, t) == 200

\* stats controller getSpecificFriendStats ->
\* StatsService.getSpecificFriendStats: 403 when the two users are not
\* friends, else the two choices
getSpecificFriendStats(rp, d, t, profile) == IF ~profile THEN 403 ELSE 200

StatsOps == {"global", "gender", "age", "friends", "friend"}

\* the routes of stats.routes.ts
StatsRoute(kind, rp, d, t, profile) ==
  IF kind = "global" THEN getGlobalStats(rp, d, t)
  ELSE IF kind = "gender" THEN getStatsByGender(rp, d, t, profile)
  ELSE IF kind = "age" THEN getStatsByAge(rp, d, t, profile)
  ELSE IF kind = "friends" THEN getFriendsStats(rp, d, t)
  ELSE getSpecificFriendStats(rp, d, t, profile)

\* a GET /api/stats/dilemmas/:dilemmaId/<kind> request is answered; profile
\* tells whether the user has the gender, the birth date or the friendship
\* the route asks for.  lastOp keeps the revealTime of the row and whether
\* the request was rejected
StatsRequest(kind, d, profile) ==
  /\ shutdown = "no"
  /\ lastOp' = Op(kind, d, repo[d].publishDate, repo[d].revealTime, now,
                  StatsRoute(kind, repo, d, now, profile) # 200)
  /\ UNCHANGED <<now, jobs, worker, repo, started, cache, shutdown, proc, reqs, votes, statsTotal>>

\* dilemmas are created and deleted and statistics asked for, before and
\* after the reveal instants
NextResults ==
  \/ Tick
  \/ Sleep
  \/ \E d \in Items, p \in Targets : SeedDilemma(d, p)
  \/ \E d \in Items, p \in Targets : CreateDilemma(d, p)
  \/ \E d \in Items : DeleteDilemma(d)
  \/ \E kind \in StatsOps, d \in Items, profile \in BOOLEAN : StatsRequest(kind, d, profile)

SpecResults == Init /\ [][NextResults]_vars

FrameJobIds ==
  {JobId(n, d) : n \in {"publish", "reveal"}, d \in AllItems} \cup {RepeatJobId(Midnight)}

\* the scheduler API is called for two dilemmas while one worker runs the jobs
NextFrame ==
  \/ Tick
  \/ InitService
  \/ \E d \in AllItems, p \in Targets, r \in Targets : p < r /\ ScheduleDilemma(d, p, r)
  \/ \E d \in AllItems : UnscheduleDilemma(d)
  \/ \E d \in AllItems, p \in Targets, r \in Targets : p < r /\ RescheduleDilemma(d, p, r)
  \/ \E id \in FrameJobIds : PromoteDelayed(id)
  \/ \E id \in FrameJobIds : ClaimJob(1, id)
  \/ FinishJob(1, FALSE, FALSE)

SpecFrame == Init /\ [][NextFrame]_vars

TypeOK ==
  /\ now \in StartTime..(Max(RetryEndTime, RetentionEndTime) + MaxTicks * TickMs)
  /\ \A j \in jobs :
       j.state \in JobStates /\ j.id \in JobIds \cup RetentionJobIds \cup FrameJobIds
  /\ started \in BOOLEAN
  /\ shutdown \in {"no", "closing", "closed"}
  /\ \A e \in cache : e.key \in {DILEMMA_TODAY, DILEMMA_TOMORROW, STATS_GLOBAL}
  /\ \A w \in Workers : ProcOf(w).pc \in {"whole", "scheduling", "invalidated", "counted"}
  /\ \A r \in Reqs :
       /\ ReqOf(r).op \in {"none", "update", "delete", "vote", "stats"}
       /\ ReqOf(r).pc \in {"idle", "unschedule", "schedule", "delete", "invalidate", "write",
                          "done", "failed"}
  /\ \A d \in AllItems : votes[d] \in 0..MaxVotes /\ statsTotal[d] \in 0..MaxVotes

(* ---------------------------------------------------------------------- *)
(* Properties                                                              *)
(* ---------------------------------------------------------------------- *)

PublishId(d) == JobId("publish", d)

RevealId(d) == JobId("reveal", d)

JobsWithId(store, id) == {j \in store : j.id = id}

Live(j) == j.state \in {"delayed", "waiting", "active"}

\* the state right after a scheduleDilemma call whose two targets were in
\* the future at the time of the call
AfterFutureSchedule ==
  /\ lastOp.op = "schedule"
  /\ lastOp.publishDate > lastOp.at
  /\ lastOp.revealTime > lastOp.at

\* C1 as stated: after scheduleDilemma(X, p2, r2) with future p2 and r2, made
\* when X may already have been scheduled with other times, the queue holds
\* exactly one job publish-X and one job reveal-X and their notBefore are p2
\* and r2, the timing of the latest call.
C1_LatestTimingWins ==
  AfterFutureSchedule =>
    /\ Cardinality(JobsWithId(jobs, PublishId(lastOp.item))) = 1
    /\ Cardinality(JobsWithId(jobs, RevealId(lastOp.item))) = 1
    /\ GetJob(jobs, PublishId(lastOp.item)).notBefore = lastOp.publishDate
    /\ GetJob(jobs, RevealId(lastOp.item)).notBefore = lastOp.revealTime

\* C1 amended: a scheduleDilemma(X, p2, r2) call with future p2 and r2 leaves
\* exactly one job publish-X and one job reveal-X in the queue; a job that
\* existed before the call is left exactly as it was (it keeps the timing of
\* the call that created it), and only a job that did not exist is created,
\* delayed until p2 respectively r2.
C1_FirstTimingKept ==
  [][(lastOp'.op = "schedule" /\ lastOp'.publishDate > now /\ lastOp'.revealTime > now) =>
       \A n \in {"publish", "reveal"} :
         LET id == JobId(n, lastOp'.item)
             target == IF n = "publish" THEN lastOp'.publishDate ELSE lastOp'.revealTime
         IN /\ Cardinality(JobsWithId(jobs', id)) = 1
            /\ IF HasJob(jobs, id)
               THEN JobsWithId(jobs', id) = JobsWithId(jobs, id)
               ELSE /\ GetJob(jobs', id).notBefore = target
                    /\ GetJob(jobs', id).state = "delayed"]_vars

\* a second scheduleDilemma call with other future times has just returned
\* and both jobs still carry the first call's timing
C1_Witness ==
  /\ AfterFutureSchedule
  /\ HasJob(jobs, PublishId(lastOp.item))
  /\ HasJob(jobs, RevealId(lastOp.item))
  /\ GetJob(jobs, PublishId(lastOp.item)).notBefore # lastOp.publishDate
  /\ GetJob(jobs, RevealId(lastOp.item)).notBefore # lastOp.revealTime
  /\ GetJob(jobs, PublishId(lastOp.item)).state = "delayed"
  /\ GetJob(jobs, RevealId(lastOp.item)).state = "delayed"

\* C2: in every reachable state the queue holds at most one non-terminal job
\* (delayed, waiting or active) for each id publish-<id> and reveal-<id>.
C2_OneLiveJobPerId ==
  \A d \in Items : \A id \in {PublishId(d), RevealId(d)} :
    Cardinality({j \in JobsWithId(jobs, id) : Live(j)}) <= 1

\* scheduleDilemma has just been called again for an item whose publish job
\* is being run and whose reveal job is still delayed
C2_Witness ==
  /\ lastOp.op = "schedule"
  /\ lastOp.publishDate > lastOp.at
  /\ HasJob(jobs, PublishId(lastOp.item))
  /\ GetJob(jobs, PublishId(lastOp.item)).state = "active"
  /\ HasJob(jobs, RevealId(lastOp.item))
  /\ GetJob(jobs, RevealId(lastOp.item)).state = "delayed"

\* C3: a scheduleDilemma(X, publishAt, revealAt) call creates no job
\* publish-X when publishAt <= now and no job reveal-X when revealAt <= now,
\* each decided on its own (a past publishAt with a future revealAt creates
\* reveal-X alone), and every job it creates has notBefore > now.
C3_NoPastDueScheduling ==
  [][lastOp'.op = "schedule" =>
       LET d == lastOp'.item
           created == jobs' \ jobs
       IN /\ lastOp'.publishDate <= now => ~HasJob(created, PublishId(d))
          /\ lastOp'.revealTime <= now => ~HasJob(created, RevealId(d))
          /\ (lastOp'.publishDate <= now /\ lastOp'.revealTime > now
                /\ ~HasJob(jobs, RevealId(d)))
               => HasJob(created, RevealId(d))
          /\ (lastOp'.revealTime <= now /\ lastOp'.publishDate > now
                /\ ~HasJob(jobs, PublishId(d)))
               => HasJob(created, PublishId(d))
          /\ \A j \in created : j.notBefore > now /\ j.state = "delayed"
          /\ jobs \subseteq jobs']_vars

\* scheduleDilemma has just been called with a past publishAt and a future
\* revealAt and the queue holds reveal-X but no publish-X
C3_Witness ==
  /\ lastOp.op = "schedule"
  /\ lastOp.publishDate <= lastOp.at
  /\ lastOp.revealTime > lastOp.at
  /\ ~HasJob(jobs, PublishId(lastOp.item))
  /\ HasJob(jobs, RevealId(lastOp.item))
  /\ GetJob(jobs, RevealId(lastOp.item)).notBefore = lastOp.revealTime

\* C5: no job is held by two workers at once, every active job is held by
\* exactly one worker, and every attempt of a job has been started once:
\* the handler starts of a job are its failed attempts plus the attempt that
\* is running or that completed.
C5_MutualExclusion ==
  /\ \A w1 \in Workers, w2 \in Workers :
       (w1 # w2 /\ worker[w1] # NoJob) => worker[w1] # worker[w2]
  /\ \A w \in Workers : worker[w] # NoJob =>
       /\ HasJob(jobs, worker[w])
       /\ GetJob(jobs, worker[w]).state = "active"
  /\ \A j \in jobs :
       /\ j.state = "active" => Cardinality({w \in Workers : worker[w] = j.id}) = 1
       /\ j.runs = j.attemptsMade + (IF j.state \in {"active", "completed"} THEN 1 ELSE 0)

\* two workers run two different jobs at the same time
C5_Witness ==
  \E w1 \in Workers, w2 \in Workers :
    /\ w1 # w2
    /\ worker[w1] # NoJob
    /\ worker[w2] # NoJob
    /\ worker[w1] # worker[w2]

\* the state right after a rescheduleDilemma call whose two targets were in
\* the future at the time of the call
AfterFutureReschedule ==
  /\ lastOp.op = "reschedule"
  /\ lastOp.publishDate > lastOp.at
  /\ lastOp.revealTime > lastOp.at

\* C4 as stated: once rescheduleDilemma(X, p2, r2) with future p2 and r2 has
\* finished, whatever the state of the old jobs was, the queue holds publish-X
\* delayed until p2 and reveal-X delayed until r2, so that nothing of X runs
\* at the old instants.
C4_RescheduleCorrect ==
  AfterFutureReschedule =>
    /\ HasJob(jobs, PublishId(lastOp.item))
    /\ GetJob(jobs, PublishId(lastOp.item)).state = "delayed"
    /\ GetJob(jobs, PublishId(lastOp.item)).notBefore = lastOp.publishDate
    /\ HasJob(jobs, RevealId(lastOp.item))
    /\ GetJob(jobs, RevealId(lastOp.item)).state = "delayed"
    /\ GetJob(jobs, RevealId(lastOp.item)).notBefore = lastOp.revealTime

\* C9 as stated: an unscheduleDilemma(X) call made while publish-X or
\* reveal-X is active finishes without error, leaves the running job to its
\* worker and removes every other job of X.
C9_CancellationRace ==
  lastOp.op = "unschedule" =>
    /\ ~lastOp.threw
    /\ \A id \in {PublishId(lastOp.item), RevealId(lastOp.item)} :
         HasJob(jobs, id) =>
           /\ GetJob(jobs, id).state = "active"
           /\ \E w \in Workers : worker[w] = id

\* C10 as stated: an attempt of a publish or reveal job in which a
\* collaborator call failed (cache invalidation, cache set, vote count) is
\* recorded as a failed attempt, never as Completed.
C10_FailuresRetried ==
  \A j \in jobs :
    (j.id.name \in {"publish", "reveal"} /\ j.ioError) =>
      /\ j.state # "completed"
      /\ j.attemptsMade >= 1

\* the job id's state in the queue, "absent" when the queue has no such job
StateOf(store, id) == IF HasJob(store, id) THEN GetJob(store, id).state ELSE "absent"

\* the state changes Bull makes to a job
LifecycleSteps ==
  {<<"delayed", "waiting">>, <<"waiting", "active">>, <<"active", "completed">>,
   <<"active", "delayed">>, <<"active", "failed">>}

\* the job that the worker step of this transition has recorded as failed or
\* re-armed: active before, one more failed attempt after
FailedAttempt(j, k) ==
  /\ j.state = "active"
  /\ k.id = j.id
  /\ k.attemptsMade = j.attemptsMade + 1

\* C6 as stated: the n-th failure of a job, n < 3, leaves it delayed until
\* (time of the failure) + 2s * 2^(n-1), that is 2s after the first failure
\* and 4s after the second; the 3rd failure leaves it failed, and the
\* notBefore of a failed job never changes again.
C6_BackoffDoubling ==
  [][\A j \in jobs :
       /\ \A k \in jobs' : FailedAttempt(j, k) =>
            IF k.attemptsMade < 3
            THEN /\ k.state = "delayed"
                 /\ k.notBefore = now + 2000 * Pow2(k.attemptsMade - 1)
            ELSE k.state = "failed" /\ k.notBefore = j.notBefore
       /\ j.state = "failed" => j \in jobs']_vars

\* C6 amended: the n-th failure of a job, n < 3, leaves it delayed until
\* (time of the failure) + 2s * (2^n - 1), that is 2s after the first failure
\* and 6s after the second; the 3rd failure leaves it failed, and the
\* notBefore of a failed job never changes again.
C6_BackoffBull ==
  [][\A j \in jobs :
       /\ \A k \in jobs' : FailedAttempt(j, k) =>
            IF k.attemptsMade < 3
            THEN /\ k.state = "delayed"
                 /\ k.notBefore = now + (IF k.attemptsMade = 1 THEN 2000 ELSE 6000)
            ELSE k.state = "failed" /\ k.notBefore = j.notBefore
       /\ j.state = "failed" => j \in jobs']_vars

\* a job failed for the third time after the shortest chain of retries:
\* due at midnight, retried 2s and then 6s after its failures
C6_Witness ==
  \E j \in jobs :
    /\ j.state = "failed"
    /\ j.attemptsMade = 3
    /\ j.notBefore = j.id.millis + 2000 + 6000

\* C7: every job has attempts <= 3 and at most 3 handler runs, a job with 3
\* failed attempts is failed, and the workers and the delay timer never
\* change a failed job again.
C7_BoundedAttempts ==
  /\ [](\A j \in jobs :
          /\ j.attemptsMade <= Attempts
          /\ j.runs <= Attempts
          /\ j.attemptsMade = Attempts <=> j.state = "failed")
  /\ [][\A j \in jobs : j.state = "failed" => j \in jobs']_vars

\* a job that failed three times is still failed after more time has passed
\* than any of its backoff delays
C7_Witness ==
  \E j \in jobs :
    /\ j.state = "failed"
    /\ j.runs = Attempts
    /\ now > j.notBefore

Terminal == {"completed", "failed"}

C11_RevealOneUnit ==
  [][\A d \in Items :
       (StateOf(jobs, RevealId(d)) = "active" /\ StateOf(jobs', RevealId(d)) # "active") =>
         LET j == GetJob(jobs, RevealId(d))
             k == GetJob(jobs', RevealId(d))
         IN /\ k.ioError => (FailedAttempt(j, k) /\ k.state \in {"delayed", "failed"})
            /\ k.state = "completed" =>
                 CacheEntry(STATS_GLOBAL, d, "precalculateStats") \in cache']_vars

\* C12 as stated: when the scheduleFutureDilemmas call of init() has
\* finished, every dilemma of the repository with publishDate > now has a
\* live (delayed, waiting or active) job publish-<id>, and every such dilemma
\* with revealTime > now has a live job reveal-<id>, whatever jobs the queue
\* held under these ids before the call.
C12_StartupRecovery ==
  [][(~started /\ started') =>
       \A d \in FutureDilemmas(repo, now) :
         /\ HasJob(jobs', PublishId(d)) /\ Live(GetJob(jobs', PublishId(d)))
         /\ repo[d].revealTime > now =>
              (HasJob(jobs', RevealId(d)) /\ Live(GetJob(jobs', RevealId(d))))]_vars

\* a daily-scheduler run ends as completed in this step
DailyRunCompletes ==
  \E id \in JobIds :
    /\ id.name = "daily-scheduler"
    /\ StateOf(jobs, id) = "active"
    /\ StateOf(jobs', id) = "completed"

\* C13 as stated: when a daily-scheduler run has completed, every dilemma of
\* the repository with publishDate > now has a job publish-<id> whose
\* notBefore is the dilemma's current publishDate and a job reveal-<id> whose
\* notBefore is its current revealTime, also when the dilemma was created or
\* re-dated since the last sweep and a job with the old timing is in the queue.
C13_ReconcileCatchesEdits ==
  [][DailyRunCompletes =>
       \A d \in FutureDilemmas(repo, now) :
         /\ HasJob(jobs', PublishId(d))
         /\ GetJob(jobs', PublishId(d)).notBefore = repo[d].publishDate
         /\ HasJob(jobs', RevealId(d))
         /\ GetJob(jobs', RevealId(d)).notBefore = repo[d].revealTime]_vars

\* C13 without the edits: what the sweep does for a dilemma that has no job
\* in the queue when the run ends (a seeded dilemma)
C13_ReconcileCatchesAdditions ==
  [][DailyRunCompletes =>
       \A d \in FutureDilemmas(repo, now) :
         /\ ~HasJob(jobs, PublishId(d)) =>
              (HasJob(jobs', PublishId(d))
                 /\ GetJob(jobs', PublishId(d)).notBefore = repo[d].publishDate)
         /\ (~HasJob(jobs, RevealId(d)) /\ repo[d].revealTime > now) =>
              (HasJob(jobs', RevealId(d))
                 /\ GetJob(jobs', RevealId(d)).notBefore = repo[d].revealTime)
         /\ \A j \in jobs : j.id.name # "daily-scheduler" => j \in jobs']_vars

\* the occurrences of the repeatable daily-scheduler job in the queue
DailyJobs(store) == {j \in store : j.id.name = "daily-scheduler"}

\* the occurrences no worker has fetched yet
PendingOccurrences(store) == {j \in DailyJobs(store) : j.runs = 0}

C15_UnscheduleIdempotent ==
  lastOp.op = "unschedule" =>
    /\ ~lastOp.threw
    /\ \A id \in {PublishId(lastOp.item), RevealId(lastOp.item)} :
         StateOf(jobs, id) \notin {"delayed", "waiting"}
    /\ unscheduleDilemma(jobs, lastOp.item) = [store |-> jobs, threw |-> FALSE]

\* C15 for the calls that meet no job being run: such a call returns without
\* error and leaves no job of X in the queue
C15_UnscheduleWhenNoneActive ==
  [][(lastOp'.op = "unschedule"
        /\ \A id \in {PublishId(lastOp'.item), RevealId(lastOp'.item)} :
             StateOf(jobs, id) # "active") =>
       /\ ~lastOp'.threw
       /\ \A id \in {PublishId(lastOp'.item), RevealId(lastOp'.item)} :
            StateOf(jobs', id) = "absent"
       /\ unscheduleDilemma(jobs', lastOp'.item) = [store |-> jobs', threw |-> FALSE]]_vars

\* the job id goes from active to completed in this step, in an attempt
\* whose collaborator calls all succeeded
CompletesCleanly(id) ==
  /\ StateOf(jobs, id) = "active"
  /\ StateOf(jobs', id) = "completed"
  /\ ~GetJob(jobs', id).ioError

\* C16: for a dilemma scheduled with now < publishDate < revealTime and
\* handlers whose calls succeed: publish-X is completed, not before
\* publishDate, by its one handler run, which leaves neither 'dilemma:today'
\* nor 'dilemma:tomorrow' in the cache; reveal-X stays delayed at every
\* instant before revealTime; reveal-X is completed, not before revealTime,
\* by a run that leaves under the stats keys of X exactly the aggregate
\* stored by precalculateStats; and both jobs do get completed.
C16_EndToEnd ==
  /\ [][\A d \in Items :
          /\ CompletesCleanly(PublishId(d)) =>
               /\ now >= GetJob(jobs, PublishId(d)).notBefore
               /\ GetJob(jobs', PublishId(d)).runs = 1
               /\ KeysOf(cache', {DILEMMA_TODAY, DILEMMA_TOMORROW}) = {}
          /\ CompletesCleanly(RevealId(d)) =>
               /\ now >= GetJob(jobs, RevealId(d)).notBefore
               /\ GetJob(jobs', RevealId(d)).runs = 1
               /\ MatchStats(cache', d) = {CacheEntry(STATS_GLOBAL, d, "precalculateStats")}]_vars
  /\ [](\A d \in Items : \A id \in {PublishId(d), RevealId(d)} :
          (HasJob(jobs, id) /\ now < GetJob(jobs, id).notBefore) =>
            GetJob(jobs, id).state = "delayed")
  /\ \A d \in Items : \A id \in {PublishId(d), RevealId(d)} :
       HasJob(jobs, id) ~> (StateOf(jobs, id) = "completed")

\* both jobs of a dilemma scheduled with publishDate < revealTime are
\* completed by clean runs, the reveal at its instant: the dilemma keys are
\* not in the cache and the aggregate under stats:global is the one
\* precalculateStats stored
C16_Witness ==
  \E d \in Items :
    /\ StateOf(jobs, PublishId(d)) = "completed"
    /\ StateOf(jobs, RevealId(d)) = "completed"
    /\ ~GetJob(jobs, PublishId(d)).ioError
    /\ ~GetJob(jobs, RevealId(d)).ioError
    /\ GetJob(jobs, PublishId(d)).notBefore < GetJob(jobs, RevealId(d)).notBefore
    /\ now = GetJob(jobs, RevealId(d)).notBefore
    /\ MatchStats(cache, d) = {CacheEntry(STATS_GLOBAL, d, "precalculateStats")}
    /\ KeysOf(cache, {DILEMMA_TODAY, DILEMMA_TOMORROW}) = {}

\* the job id is due, has not been taken yet, and the queue holds a failed job
DueBesideFailed(id) ==
  /\ \E f \in jobs : f.state = "failed" /\ f.id # id
  /\ StateOf(jobs, id) \in {"delayed", "waiting"}
  /\ GetJob(jobs, id).notBefore <= now

\* C17: when a job has failed after its last attempt, every other job that
\* is due and whose handler resolves (the publish and reveal jobs) is still
\* taken by a worker and completed, under fair scheduling of the delay timer
\* and the workers; the failed job stays in the queue as it is and stays
\* counted in the failed count of getStats.
C17_FailureDoesNotBlock ==
  /\ \A id \in {i \in JobIds : i.name \in {"publish", "reveal"}} :
       DueBesideFailed(id) ~> (StateOf(jobs, id) = "completed")
  /\ [][/\ \A j \in jobs : j.state = "failed" => j \in jobs'
        /\ getStats(jobs').failed >= getStats(jobs).failed]_vars
  /\ [](getStats(jobs).failed = Cardinality({j \in jobs : j.state = "failed"}))

\* a worker runs the publish job of a dilemma while the daily-scheduler
\* occurrence that failed three times is in the queue and in the failed count
C17_Witness ==
  /\ getStats(jobs).failed = 1
  /\ \E f \in jobs : f.state = "failed" /\ f.attemptsMade = Attempts
  /\ \E w \in Workers : worker[w] # NoJob /\ worker[w].name = "publish"

\* C18 as stated: once shutdown() has been called no job goes from waiting
\* to active any more; every handler that is running at that moment runs to
\* its end with its collaborators usable and its attempt is recorded
\* (completed, re-armed or failed); shutdown() returns only when no handler
\* runs any more.
C18_GracefulShutdown ==
  /\ [][\A id \in JobIds :
          /\ (shutdown # "no" /\ StateOf(jobs, id) = "waiting") => StateOf(jobs', id) # "active"
          /\ (shutdown = "closing" /\ StateOf(jobs, id) = "active" /\ StateOf(jobs', id) # "active")
               => StateOf(jobs', id) \in {"completed", "delayed", "failed"}]_vars
  /\ []((shutdown = "closing" /\ \E w \in Workers : worker[w] # NoJob) => RedisUsable)
  /\ [](shutdown = "closed" =>
          /\ \A w \in Workers : worker[w] = NoJob
          /\ \A j \in jobs : j.state # "active")

\* C18 without the collaborators: what queue.close() itself guarantees
C18_QueueCloseWaits ==
  /\ [][\A id \in JobIds :
          /\ (shutdown # "no" /\ StateOf(jobs, id) = "waiting") => StateOf(jobs', id) # "active"
          /\ (shutdown = "closing" /\ StateOf(jobs, id) = "active" /\ StateOf(jobs', id) # "active")
               => StateOf(jobs', id) \in {"completed", "delayed", "failed"}]_vars
  /\ [](shutdown = "closed" =>
          /\ \A w \in Workers : worker[w] = NoJob
          /\ \A j \in jobs : j.state # "active")

\* C19 as stated: getUpcomingJobs(limit) returns at most limit entries, in
\* ascending order of scheduledFor, each entry being a job of the queue that
\* has not been run to its end (delayed or waiting), and the scheduledFor of
\* each entry is the notBefore the job has now, also for a job that a retry
\* backoff has re-armed.
C19_UpcomingListing ==
  \A limit \in 1..MaxLimit :
    LET upcoming == getUpcomingJobs(jobs, limit)
    IN /\ Len(upcoming) <= limit
       /\ \A i \in 1..Len(upcoming) : \A k \in i..Len(upcoming) :
            upcoming[i].scheduledFor <= upcoming[k].scheduledFor
       /\ \A i \in 1..Len(upcoming) :
            /\ StateOf(jobs, upcoming[i].id) \in {"delayed", "waiting"}
            /\ upcoming[i].scheduledFor = GetJob(jobs, upcoming[i].id).notBefore

\* time of day of an instant (ms since the start of its day)
TimeOfDay(t) == t % DayMs

HandlerStarts(id) ==
  /\ StateOf(jobs, id) # "active"
  /\ StateOf(jobs', id) = "active"

WorkerReleased(id) ==
  \A w \in Workers : worker[w] = id => worker'[w] = NoJob

\* C22: every attempt a worker has claimed ends in exactly one record: the
\* step that ends an active job either records it completed (no failed
\* attempt counted) or counts one failed attempt (re-armed or failed), never
\* both, and frees the worker; no other step touches an active job; the
\* handler runs of a job are its failed attempts plus at most one completed
\* or running one; every claimed attempt does get its record, and after a
\* handler has thrown the jobs on the wait list are still taken.
C22_OneOutcomePerAttempt ==
  /\ [][\A id \in JobIds : StateOf(jobs, id) = "active" =>
          LET j == GetJob(jobs, id)
              k == GetJob(jobs', id)
          IN /\ HasJob(jobs', id)
             /\ \/ k = j
                \/ /\ k.state = "completed"
                   /\ k.attemptsMade = j.attemptsMade
                   /\ k.runs = j.runs
                   /\ WorkerReleased(id)
                \/ /\ k.state \in {"delayed", "failed"}
                   /\ k.attemptsMade = j.attemptsMade + 1
                   /\ k.runs = j.runs
                   /\ WorkerReleased(id)]_vars
  /\ [](\A j \in jobs :
          /\ j.state = "completed" => j.runs = j.attemptsMade + 1
          /\ j.state \in {"delayed", "waiting", "failed"} => j.runs = j.attemptsMade)
  /\ \A id \in JobIds : (StateOf(jobs, id) = "active") ~> (StateOf(jobs, id) # "active")
  /\ \A id \in JobIds :
       (StateOf(jobs, id) = "waiting" /\ \E j \in jobs : j.attemptsMade > 0)
         ~> (StateOf(jobs, id) = "active")

\* the handler of a daily-scheduler occurrence threw once and its retry has
\* completed: two runs, one failed attempt, and the worker is free again
C22_Witness ==
  \E j \in jobs :
    /\ j.state = "completed"
    /\ j.runs = 2
    /\ j.attemptsMade = 1
    /\ \A w \in Workers : worker[w] # j.id

\* the finished job j of this state is not in the store after the step
LeavesStore(j) == j.state \in Terminal /\ j \notin jobs'

\* the step is an unscheduleDilemma (alone, or inside rescheduleDilemma or
\* deleteDilemma) of the item of job j
UnscheduledHere(j) ==
  /\ lastOp'.op \in {"unschedule", "reschedule"}
  /\ j.id.name \in {"publish", "reveal"}
  /\ lastOp'.item = j.id.key

\* the step is a cleanup() and j finished more than 7 days (completed) or 30
\* days (failed) before it
CleanedHere(j) ==
  /\ lastOp'.op = "cleanup"
  /\ now - j.finishedOn > (IF j.state = "completed" THEN 7 ELSE 30) * DayMs

\* the step records another job as finished in the state j has, after which
\* the queue holds exactly keep jobs of that state, none finished before j
TrimmedHere(j, keep) ==
  /\ \E k \in jobs' : k.state = j.state /\ StateOf(jobs, k.id) = "active"
  /\ Cardinality({x \in jobs' : x.state = j.state}) = keep
  /\ \A x \in jobs' : x.state = j.state => x.finishedOn >= j.finishedOn

RecoversAfterLoss == ~started /\ started' /\ lastOp.op = "lost"

\* C24 as stated: when the queue has lost its delayed jobs while the process
\* was down and init() has run, every dilemma whose revealTime is still in
\* the future has a live job reveal-<id>, also a dilemma whose publishDate
\* has passed (publishDate <= now < revealTime).
C24_RestartKeepsReveal ==
  [][RecoversAfterLoss =>
       \A d \in Items : (repo[d] # NoDilemma /\ repo[d].revealTime > now) =>
         (HasJob(jobs', RevealId(d)) /\ Live(GetJob(jobs', RevealId(d))))]_vars

\* C24 for the dilemmas that are not published yet: after the loss init()
\* gives each of them whose revealTime lies ahead a live reveal job due at
\* its revealTime
C24_RecoversUnpublished ==
  [][RecoversAfterLoss =>
       \A d \in FutureDilemmas(repo, now) :
         repo[d].revealTime > now =>
           /\ HasJob(jobs', RevealId(d))
           /\ Live(GetJob(jobs', RevealId(d)))
           /\ GetJob(jobs', RevealId(d)).notBefore = repo[d].revealTime]_vars

\* some deleteDilemma(d) request has completed and the row of d is gone
Deleted(d) ==
  /\ repo[d] = NoDilemma
  /\ \E r \in Reqs : ReqOf(r).op = "delete" /\ ReqOf(r).item = d /\ ReqOf(r).pc = "done"

\* C25: once deleteDilemma(X) has completed (unscheduleDilemma, then the
\* repository delete), no delayed or waiting job publish-X or reveal-X is in
\* the queue, however the deletion interleaves with the reading and the
\* scheduling of a daily-scheduler sweep.
C25_NoOrphanAfterDeletion ==
  \A d \in Items :
    Deleted(d) =>
      ~\E j \in jobs : j.id \in {PublishId(d), RevealId(d)} /\ j.state \in {"delayed", "waiting"}

\* two updateDilemma requests for d with different publish dates have both
\* completed, and no request is in flight any more
BothUpdated(d) ==
  /\ \E r1, r2 \in Reqs :
       /\ r1 # r2
       /\ ReqOf(r1).publishDate # ReqOf(r2).publishDate
       /\ \A r \in {r1, r2} : ReqOf(r).op = "update" /\ ReqOf(r).item = d /\ ReqOf(r).pc = "done"
  /\ \A r \in Reqs : ReqOf(r).pc \in {"idle", "done", "failed"}

\* C26: once two concurrent updateDilemma calls for X with different publish
\* dates have both completed, a delayed publish-X (reveal-X) that has not run
\* yet is due at the publishDate (revealTime) stored for X, whatever the
\* interleaving of the repository writes, unschedules and schedules.
C26_ReschedulesConverge ==
  \A d \in Items :
    BothUpdated(d) =>
      \A j \in jobs :
        j.state = "delayed" /\ j.attemptsMade = 0 =>
          /\ j.id = PublishId(d) => j.notBefore = repo[d].publishDate
          /\ j.id = RevealId(d) => j.notBefore = repo[d].revealTime

\* a vote on d has returned and no vote on d is between its insert and its
\* invalidation
VoteReturned(d) ==
  /\ \E r \in Reqs : ReqOf(r).op = "vote" /\ ReqOf(r).item = d /\ ReqOf(r).pc = "done"
  /\ \A r \in Reqs : ReqOf(r).op = "vote" /\ ReqOf(r).item = d => ReqOf(r).pc = "done"

\* C27: once a VoteService.vote call has returned, a value held under
\* stats:global:<id> has totalVotes equal to the number of votes stored for
\* the item, however the vote interleaves with the count and the cache write
\* of the reveal handler or of StatsService.getGlobalStats.
C27_CachedStatsFresh ==
  \A d \in Items :
    VoteReturned(d) /\ MatchStats(cache, d) # {} => statsTotal[d] = votes[d]

\* C29: a statistics request (global, by gender, by age, friends, one
\* friend) for an existing dilemma that is answered before the revealTime of
\* the dilemma is rejected.
C29_HiddenUntilReveal ==
  lastOp.op \in StatsOps /\ repo[lastOp.item] # NoDilemma /\ lastOp.at < lastOp.revealTime
    => lastOp.threw

\* the gate where the code has it: getGlobalStats rejects before revealTime
\* and answers from revealTime on
C29_GlobalHiddenUntilReveal ==
  lastOp.op = "global" /\ repo[lastOp.item] # NoDilemma
    => (lastOp.threw <=> lastOp.at < lastOp.revealTime)

\* the operations of the scheduler on one dilemma, as lastOp names them
PerItemOps == {"schedule", "unschedule", "reschedule"}

\* the jobs of store that are not publish-d or reveal-d
JobsBeside(store, d) == {j \in store : j.id.key # d}

\* C28: scheduleDilemma(X), unscheduleDilemma(X) and rescheduleDilemma(X)
\* leave every job of another dilemma as it is (existence, state, attempts,
\* notBefore) and leave the daily-scheduler jobs as they are.
C28_Frame ==
  [][lastOp'.op \in PerItemOps =>
       /\ JobsBeside(jobs', lastOp'.item) = JobsBeside(jobs, lastOp'.item)
       /\ DailyJobs(jobs') = DailyJobs(jobs)]_vars

\* rescheduleDilemma(d1) has set the reveal job of d1 anew while d2 has a
\* delayed job and a job a worker took, and the daily job is armed
C28_Witness ==
  /\ lastOp.op = "reschedule"
  /\ lastOp.item = "d1"
  /\ ~lastOp.threw
  /\ \E j \in jobs : j.id = RevealId("d1") /\ j.notBefore = lastOp.revealTime
  /\ \E j \in jobs : j.id.key = "d2" /\ j.state = "delayed"
  /\ \E j \in jobs : j.id.key = "d2" /\ j.state = "active"
  /\ \E j \in DailyJobs(jobs) : j.state = "delayed"

\* C30: getStats() returns total = waiting + active + completed + failed +
\* delayed, and (no job changing state during the call) every job of the
\* queue is counted in exactly one of the five counts, so that total is the
\* number of jobs in the queue.
C30_StatsConsistent ==
  LET stats == getStats(jobs)
      countedIn(j) == {s \in JobStates : j.state = s}
  IN /\ stats.total = stats.waiting + stats.active + stats.completed + stats.failed
                        + stats.delayed
     /\ \A j \in jobs : Cardinality(countedIn(j)) = 1
     /\ \A s \in JobStates : stats[s] = Cardinality({j \in jobs : s \in countedIn(j)})
     /\ stats.total = Cardinality(jobs)

\* the queue holds four jobs: a failed one, delayed ones and one that is
\* running
C30_Witness ==
  /\ \E j \in jobs : j.state = "failed"
  /\ \E j \in jobs : j.state = "delayed"
  /\ \E j \in jobs : j.state = "active"
  /\ getStats(jobs).total = 4

====
